---- MODULE Spec2Model ----
(***************************************************************************)
(* A model of the Student Management System: the request handlers of       *)
(* routes/studentRoutes.js and routes/authRoutes.js, the Mongoose schemas  *)
(* of models/Student.js and models/User.js and the session middleware of   *)
(* server.js.                                                              *)
(*                                                                         *)
(* A string is a sequence of one-character strings, so that trimming,      *)
(* lowercasing and pattern matching are computed and not assumed.          *)
(***************************************************************************)
EXTENDS Integers, Sequences, FiniteSets, TLC

VARIABLES students, nextId, users, nextUserId, session, reqs

vars == <<students, nextId, users, nextUserId, session, reqs>>

(***************************************************************************)
(* Strings                                                                 *)
(***************************************************************************)
Lowers == <<"a","b","c","d","e","f","g","h","i","j","k","l","m",
            "n","o","p","q","r","s","t","u","v","w","x","y","z">>

Uppers == <<"A","B","C","D","E","F","G","H","I","J","K","L","M",
            "N","O","P","Q","R","S","T","U","V","W","X","Y","Z">>

Digits == <<"0","1","2","3","4","5","6","7","8","9">>

Range(f) == {f[i] : i \in DOMAIN f}

Letters == Range(Lowers) \cup Range(Uppers)

Whitespace == {" "}

\* String.prototype.toLowerCase, one character
LowerChar(c) ==
    IF c \in Range(Uppers)
    THEN Lowers[CHOOSE i \in DOMAIN Uppers : Uppers[i] = c]
    ELSE c

\* String.prototype.toLowerCase
toLowerCase(s) == [i \in DOMAIN s |-> LowerChar(s[i])]

RECURSIVE trimStart(_)
trimStart(s) ==
    IF s # <<>> /\ Head(s) \in Whitespace THEN trimStart(Tail(s)) ELSE s

RECURSIVE trimEnd(_)
trimEnd(s) ==
    IF s # <<>> /\ s[Len(s)] \in Whitespace
    THEN trimEnd(SubSeq(s, 1, Len(s) - 1))
    ELSE s

\* String.prototype.trim, and express-validator's trim() sanitizer
trim(s) == trimEnd(trimStart(s))

\* a string of n copies of the character c
Repeat(c, n) == [i \in 1..n |-> c]

\* the positions of the character c in s
Positions(s, c) == {i \in DOMAIN s : s[i] = c}

(***************************************************************************)
(* Numbers.  A gpa is submitted as a string and stored as a Number; the    *)
(* model keeps a Number as an integer count of 1/GpaScale units, which is  *)
(* exact for decimal strings of at most three fraction digits.             *)
(***************************************************************************)
GpaScale == 1000

GpaMin == 0

GpaMax == 4

DigitVal(c) == (CHOOSE i \in DOMAIN Digits : Digits[i] = c) - 1

AllDigits(s) == \A i \in DOMAIN s : s[i] \in Range(Digits)

RECURSIVE DigitsToInt(_)
DigitsToInt(s) ==
    IF s = <<>> THEN 0
    ELSE 10 * DigitsToInt(SubSeq(s, 1, Len(s) - 1)) + DigitVal(s[Len(s)])

Unsigned(s) == IF s # <<>> /\ Head(s) \in {"+", "-"} THEN Tail(s) ELSE s

IntPart(s) ==
    LET u == Unsigned(s)
        dots == Positions(u, ".")
    IN  IF dots = {} THEN u ELSE SubSeq(u, 1, (CHOOSE d \in dots : TRUE) - 1)

FracPart(s) ==
    LET u == Unsigned(s)
        dots == Positions(u, ".")
    IN  IF dots = {} THEN <<>> ELSE SubSeq(u, (CHOOSE d \in dots : TRUE) + 1, Len(u))

\* validator.js float syntax /^[-+]?[0-9]*(\.[0-9]*)?$/ with the strings
\* '', '.', '-', '+' excluded (the exponent part is outside the alphabet)
FloatSyntax(s) ==
    /\ s \notin {<<>>, <<".">>, <<"-">>, <<"+">>}
    /\ Cardinality(Positions(Unsigned(s), ".")) <= 1
    /\ AllDigits(IntPart(s))
    /\ AllDigits(FracPart(s))

\* parseFloat / Number of a string with float syntax, in 1/GpaScale units
NumberOf(s) ==
    LET f == FracPart(s)
        pad == SubSeq(f \o <<"0", "0", "0">>, 1, 3)
        mag == DigitsToInt(IntPart(s)) * GpaScale + DigitsToInt(pad)
    IN  IF s # <<>> /\ Head(s) = "-" THEN 0 - mag ELSE mag

\* the string has a digit: parseFloat of a string with float syntax and no
\* digit ('-.', '+.') is NaN
HasDigit(s) == IntPart(s) # <<>> \/ FracPart(s) # <<>>

\* the decimal has a non-zero digit beyond 1/GpaScale, which NumberOf drops
HasRemainder(s) ==
    \E i \in DOMAIN FracPart(s) : i > 3 /\ FracPart(s)[i] # "0"

\* parseFloat(s) >= bound and parseFloat(s) <= bound, bound in 1/GpaScale
\* units, on the decimal that s denotes (parseFloat rounds to a double,
\* which orders a decimal of up to 15 fraction digits against an integer
\* bound as the decimal itself)
AtLeast(s, bound) ==
    IF s # <<>> /\ Head(s) = "-" /\ HasRemainder(s)
    THEN NumberOf(s) > bound
    ELSE NumberOf(s) >= bound

AtMost(s, bound) ==
    IF ~(s # <<>> /\ Head(s) = "-") /\ HasRemainder(s)
    THEN NumberOf(s) < bound
    ELSE NumberOf(s) <= bound

\* isFloat with value < max in the place of value <= max
isFloat_ExclusiveMax(s, min, max) ==
    /\ FloatSyntax(s)
    /\ HasDigit(s)
    /\ AtLeast(s, min * GpaScale)
    /\ NumberOf(s) < max * GpaScale

\* express-validator isFloat({ min: 0, max: 4 }): the syntax, then
\* value = parseFloat(str), value >= min and value <= max (false for NaN)
isFloat(s, min, max) ==
    /\ FloatSyntax(s)
    /\ HasDigit(s)
    /\ AtLeast(s, min * GpaScale)
    /\ AtMost(s, max * GpaScale)

(***************************************************************************)
(* Patterns                                                                *)
(***************************************************************************)
\* /^[a-z0-9-]+$/i
MatchesRollNumber(s) ==
    /\ s # <<>>
    /\ \A i \in DOMAIN s : s[i] \in Letters \cup Range(Digits) \cup {"-"}

\* /^[a-zA-Z0-9_]+$/
MatchesUsername(s) ==
    /\ s # <<>>
    /\ \A i \in DOMAIN s : s[i] \in Letters \cup Range(Digits) \cup {"_"}

\* emailRegex = /^[^\s@]+@[^\s@]+\.[^\s@]+$/
emailRegex(s) ==
    /\ \A i \in DOMAIN s : s[i] \notin Whitespace
    /\ Cardinality(Positions(s, "@")) = 1
    /\ LET at == CHOOSE i \in Positions(s, "@") : TRUE
       IN  /\ at > 1
           /\ \E d \in Positions(s, ".") : d > at + 1 /\ d < Len(s)

\* express-validator isEmail() with its defaults, on the model's alphabet:
\* an unquoted local part of letters, digits, dots and a few symbols, and
\* a domain of dot-separated non-empty labels ending in a top-level domain
\* of at least two letters
isEmail(s) ==
    /\ Cardinality(Positions(s, "@")) = 1
    /\ LET at == CHOOSE i \in Positions(s, "@") : TRUE
           user == SubSeq(s, 1, at - 1)
           domain == SubSeq(s, at + 1, Len(s))
           dots == Positions(domain, ".")
           last == CHOOSE d \in dots : \A e \in dots : e <= d
       IN  /\ user # <<>>
           /\ \A i \in DOMAIN user :
                  user[i] \in Letters \cup Range(Digits) \cup {".", "_", "-", "+"}
           /\ user[1] # "." /\ user[Len(user)] # "."
           /\ \A i \in DOMAIN domain :
                  domain[i] \in Letters \cup Range(Digits) \cup {".", "-"}
           /\ dots # {}
           /\ 1 \notin dots /\ Len(domain) \notin dots
           /\ \A d \in dots : d + 1 \notin dots
           /\ Len(domain) - last >= 2
           /\ \A i \in (last + 1)..Len(domain) : domain[i] \in Letters

\* express-validator normalizeEmail() with its defaults: the address is
\* lowercased (the provider-specific rewrites do not apply to the domains
\* of the model)
normalizeEmail(s) == toLowerCase(s)

\* an absent form field (undefined)
Undefined == <<"undefined">>

\* express-validator's toString of a field value before a sanitizer runs
toString(v) == IF v = Undefined THEN <<>> ELSE v

\* sanitizeString = (s) => (typeof s === 'string' ? s.trim() : s)
sanitizeString(s) == IF s = Undefined THEN s ELSE trim(s)

(***************************************************************************)
(* Validation Layer for students (express-validator chains).  A chain      *)
(* runs its sanitizers and validators in order on the field; every failed  *)
(* validator adds its message, and the sanitized value is written back to  *)
(* req.body.                                                               *)
(***************************************************************************)
NameMinLen == 2

NameMaxLen == 100

DepartmentMaxLen == 100

CustomDepartmentMinLen == 2

CustomDepartmentMaxLen == 100

Custom == <<"c","u","s","t","o","m">>

\* validateDepartment: the messages it throws (none when it returns true)
validateDepartment(value, body) ==
    IF value = Custom
    THEN IF body.customDepartment = Undefined \/ body.customDepartment = <<>>
            \/ trim(body.customDepartment) = <<>>
         THEN <<"Custom department name is required">>
         ELSE IF Len(trim(body.customDepartment)) < CustomDepartmentMinLen
         THEN <<"Custom department name must be at least 2 characters long">>
         ELSE IF Len(trim(body.customDepartment)) > CustomDepartmentMaxLen
         THEN <<"Custom department name must be at most 100 characters long">>
         ELSE <<>>
    ELSE <<>>

\* req.body after the sanitizers of studentValidators have run
sanitizedBody(body) ==
    [body EXCEPT !.name = trim(toString(body.name)),
                 !.rollNumber = trim(toString(body.rollNumber)),
                 !.email = normalizeEmail(trim(toString(body.email))),
                 !.department = trim(toString(body.department))]

\* studentValidators: the error messages, in chain order
studentValidators(body) ==
    LET name == trim(toString(body.name))
        roll == trim(toString(body.rollNumber))
        email == trim(toString(body.email))
        dept == trim(toString(body.department))
    IN  (IF name = <<>> THEN <<"Name is required">> ELSE <<>>)
        \o (IF Len(name) < NameMinLen \/ Len(name) > NameMaxLen
            THEN <<"Invalid value">> ELSE <<>>)
        \o (IF roll = <<>> THEN <<"Roll number is required">> ELSE <<>>)
        \o (IF ~MatchesRollNumber(roll)
            THEN <<"Roll number must be alphanumeric">> ELSE <<>>)
        \o (IF ~isEmail(email) THEN <<"Valid email is required">> ELSE <<>>)
        \o (IF dept = <<>> THEN <<"Department is required">> ELSE <<>>)
        \o validateDepartment(dept, body)
        \o (IF ~isFloat(toString(body.gpa), GpaMin, GpaMax)
            THEN <<"GPA must be between 0.0 and 4.0">> ELSE <<>>)

(***************************************************************************)
(* Student schema (models/Student.js): the setters Mongoose applies when   *)
(* a document or an update is cast, and the validators it runs on the      *)
(* cast values.                                                            *)
(***************************************************************************)
\* castStudent with a rollNumber path that lacks lowercase: true
castStudent_NoLowercase(f) ==
    [name |-> trim(f.name),
     rollNumber |-> trim(f.rollNumber),
     email |-> trim(toLowerCase(f.email)),
     department |-> trim(f.department),
     gpa |-> f.gpa]

\* trim / lowercase setters of StudentSchema
castStudent(f) ==
    [name |-> trim(f.name),
     rollNumber |-> toLowerCase(trim(f.rollNumber)),
     email |-> trim(toLowerCase(f.email)),
     department |-> trim(f.department),
     gpa |-> f.gpa]

\* the schema validators: the paths that fail (ValidationError when not empty)
schemaErrors(d) ==
    (IF d.name = <<>> \/ Len(d.name) < NameMinLen \/ Len(d.name) > NameMaxLen
     THEN {"name"} ELSE {})
    \cup (IF ~MatchesRollNumber(d.rollNumber) THEN {"rollNumber"} ELSE {})
    \cup (IF ~emailRegex(d.email) THEN {"email"} ELSE {})
    \cup (IF d.department = <<>> \/ Len(d.department) > DepartmentMaxLen
          THEN {"department"} ELSE {})
    \cup (IF d.gpa < GpaMin * GpaScale \/ d.gpa > GpaMax * GpaScale
          THEN {"gpa"} ELSE {})

\* duplicateKeys with an email path that lacks unique: true
duplicateKeys_RollOnly(coll, d, self) ==
    IF \E o \in coll : o._id # self /\ o.rollNumber = d.rollNumber
    THEN {"rollNumber"} ELSE {}

\* the unique indexes of StudentSchema: the index keys that the document d
\* would duplicate in the collection, the document with id self excepted
duplicateKeys(coll, d, self) ==
    (IF \E o \in coll : o._id # self /\ o.rollNumber = d.rollNumber
     THEN {"rollNumber"} ELSE {})
    \cup (IF \E o \in coll : o._id # self /\ o.email = d.email
          THEN {"email"} ELSE {})

\* the fields the create and update handlers hand to the model
studentFields(body) ==
    LET departmentValue ==
            IF sanitizeString(body.department) = Custom
               /\ body.customDepartment # Undefined /\ body.customDepartment # <<>>
            THEN sanitizeString(body.customDepartment)
            ELSE sanitizeString(body.department)
    IN  [name |-> sanitizeString(body.name),
         rollNumber |-> sanitizeString(body.rollNumber),
         email |-> sanitizeString(body.email),
         department |-> departmentValue,
         gpa |-> NumberOf(body.gpa)]

(***************************************************************************)
(* Requests and responses.  reqs is the sequence of the requests received  *)
(* so far, in arrival order; a request is in flight until its pc is        *)
(* "done".  A response is a rendered view or a redirect.                   *)
(***************************************************************************)
NoLocation == [path |-> "", id |-> 0, msg |-> ""]

NoLocals == [none |-> TRUE]

NoBody == [none |-> TRUE]

\* res.status(status).render(view, { errors, ... })
Render(status, view, errors) ==
    [status |-> status, view |-> view, location |-> NoLocation,
     errors |-> errors, locals |-> NoLocals]

\* res.render(view, locals)
RenderWith(view, locals) ==
    [status |-> 200, view |-> view, location |-> NoLocation,
     errors |-> <<>>, locals |-> locals]

\* res.redirect(url): Express answers 302; url is path[/id]?msg=msg
Redirect(path, id, msg) ==
    [status |-> 302, view |-> "", location |-> [path |-> path, id |-> id, msg |-> msg],
     errors |-> <<>>, locals |-> NoLocals]

NoResponse == Render(0, "", <<>>)

\* the global error handler of server.js for an error without a status
UnexpectedError == Render(500, "error", <<"An unexpected error occurred.">>)

StudentNotFound == Render(404, "error", <<"Student not found">>)

\* a route parameter :id.  valid: it has the syntax of an ObjectId (24
\* hexadecimal digits); castable: Mongoose casts it to an ObjectId (it does
\* so for 24 hexadecimal digits and for any string of 12 bytes); n: the
\* ObjectId it is cast to
ObjectId(n) == [valid |-> TRUE, castable |-> TRUE, n |-> n]

\* an :id such as "abc"
BadId == [valid |-> FALSE, castable |-> FALSE, n |-> 0]

\* an :id of 12 characters such as "abcdefghijkl", the ObjectId of no document
TwelveBytesId == [valid |-> FALSE, castable |-> TRUE, n |-> 0]

NoId == [valid |-> FALSE, castable |-> FALSE, n |-> -1]

\* param('id').isMongoId()
isMongoId(id) == id.valid

\* the cast of the _id condition of findById, findByIdAndUpdate and
\* findByIdAndDelete: a CastError when FALSE
castsToObjectId(id) == id.castable

NewRequest(kind, id, body, pc, resp) ==
    [kind |-> kind, id |-> id, body |-> body, pc |-> pc, resp |-> resp,
     calls |-> <<>>]

InFlight(i, kind, pc) ==
    /\ i \in DOMAIN reqs
    /\ reqs[i].kind = kind
    /\ reqs[i].pc = pc

\* the request i ends with the response resp, having invoked the store
\* operation op
Finish(i, op, resp) ==
    reqs' = [reqs EXCEPT ![i].pc = "done", ![i].resp = resp,
                         ![i].calls = Append(@, op)]

(***************************************************************************)
(* Student CRUD handlers (routes/studentRoutes.js).  A handler runs its    *)
(* validators when the request arrives and then awaits one store           *)
(* operation, which the storage layer executes atomically; requests in     *)
(* flight interleave between the two.                                      *)
(***************************************************************************)
DuplicateMessage(field) ==
    IF field = "rollNumber" THEN "rollNumber must be unique" ELSE "email must be unique"

\* PostStudents behind a guard that sends a client without an
\* authenticated session to the login page
PostStudents_RequireLogin(body) ==
    LET errors == studentValidators(body)
    IN  /\ reqs' = Append(reqs,
               IF session.userId = 0
               THEN NewRequest("POST /students", NoId, body, "done",
                               Redirect("/login", 0, ""))
               ELSE IF errors # <<>>
               THEN NewRequest("POST /students", NoId, body, "done",
                               Render(422, "addStudent", errors))
               ELSE NewRequest("POST /students", NoId, sanitizedBody(body), "save",
                               NoResponse))
        /\ UNCHANGED <<students, nextId, users, nextUserId, session>>

\* POST /students: validationResult(req)
PostStudents(body) ==
    LET errors == studentValidators(body)
    IN  /\ reqs' = Append(reqs,
               IF errors # <<>>
               THEN NewRequest("POST /students", NoId, body, "done",
                               Render(422, "addStudent", errors))
               ELSE NewRequest("POST /students", NoId, sanitizedBody(body), "save",
                               NoResponse))
        /\ UNCHANGED <<students, nextId, users, nextUserId, session>>

\* res.redirect('/students?msg=created'), answering the create of document id
CreatedRedirect(id) == Redirect("/students", 0, "created")

\* UpdatedRedirect sending the client to the list, as the create does
UpdatedRedirect_ToList(id) == Redirect("/students", 0, "updated")

\* res.redirect(`/students/${updated._id}?msg=updated`)
UpdatedRedirect(id) == Redirect("/students/:id", id, "updated")

\* POST /students: new Student({...}) and await student.save()
SaveStudent(i) ==
    /\ InFlight(i, "POST /students", "save")
    /\ LET doc == castStudent(studentFields(reqs[i].body))
           dup == duplicateKeys(students, doc, 0)
       IN  IF schemaErrors(doc) # {}
           THEN /\ Finish(i, "save", UnexpectedError)
                /\ UNCHANGED <<students, nextId>>
           ELSE IF dup # {}
           THEN /\ \E field \in dup :
                       Finish(i, "save",
                              Render(409, "addStudent", <<DuplicateMessage(field)>>))
                /\ UNCHANGED <<students, nextId>>
           ELSE /\ students' = students \cup
                       {[_id |-> nextId, name |-> doc.name,
                         rollNumber |-> doc.rollNumber, email |-> doc.email,
                         department |-> doc.department, gpa |-> doc.gpa,
                         createdAt |-> nextId]}
                /\ nextId' = nextId + 1
                /\ Finish(i, "save", CreatedRedirect(nextId))
    /\ UNCHANGED <<users, nextUserId, session>>

\* PUT /students/:id: validationResult(req), param('id') included
PutStudent(id, body) ==
    LET errors == (IF isMongoId(id) THEN <<>> ELSE <<"Invalid value">>)
                  \o studentValidators(body)
    IN  /\ reqs' = Append(reqs,
               IF errors # <<>>
               THEN NewRequest("PUT /students/:id", id, body, "done",
                               Render(422, "editStudent", errors))
               ELSE NewRequest("PUT /students/:id", id, sanitizedBody(body), "update",
                               NoResponse))
        /\ UNCHANGED <<students, nextId, users, nextUserId, session>>

\* PUT /students/:id: await Student.findByIdAndUpdate(id, { $set }, { runValidators })
UpdateStudent(i) ==
    /\ InFlight(i, "PUT /students/:id", "update")
    /\ LET doc == castStudent(studentFields(reqs[i].body))
           self == reqs[i].id.n
           dup == duplicateKeys(students, doc, self)
       IN  IF schemaErrors(doc) # {}
           THEN /\ Finish(i, "findByIdAndUpdate", UnexpectedError)
                /\ UNCHANGED students
           ELSE IF ~\E o \in students : o._id = self
           THEN /\ Finish(i, "findByIdAndUpdate", StudentNotFound)
                /\ UNCHANGED students
           ELSE IF dup # {}
           THEN /\ \E field \in dup :
                       Finish(i, "findByIdAndUpdate",
                              Render(409, "editStudent", <<DuplicateMessage(field)>>))
                /\ UNCHANGED students
           ELSE /\ students' =
                       {IF o._id = self
                        THEN [o EXCEPT !.name = doc.name,
                                       !.rollNumber = doc.rollNumber,
                                       !.email = doc.email,
                                       !.department = doc.department,
                                       !.gpa = doc.gpa]
                        ELSE o : o \in students}
                /\ Finish(i, "findByIdAndUpdate", UpdatedRedirect(self))
    /\ UNCHANGED <<nextId, users, nextUserId, session>>

\* GET /students/:id, GET /students/:id/edit, DELETE /students/:id: the
\* validator of :id runs, and the handler runs whatever it found
GetById(kind, id) ==
    /\ kind \in {"GET /students/:id", "GET /students/:id/edit", "DELETE /students/:id"}
    /\ reqs' = Append(reqs, NewRequest(kind, id, NoBody, "store", NoResponse))
    /\ UNCHANGED <<students, nextId, users, nextUserId, session>>

\* GET /students/:id: await Student.findById(req.params.id).lean()
ShowStudent(i) ==
    /\ InFlight(i, "GET /students/:id", "store")
    /\ IF ~castsToObjectId(reqs[i].id)
       THEN Finish(i, "findById", UnexpectedError)
       ELSE IF ~\E o \in students : o._id = reqs[i].id.n
       THEN Finish(i, "findById", StudentNotFound)
       ELSE Finish(i, "findById",
                   RenderWith("studentDetails",
                              [student |-> CHOOSE o \in students : o._id = reqs[i].id.n]))
    /\ UNCHANGED <<students, nextId, users, nextUserId, session>>

\* GET /students/:id/edit: await Student.findById(req.params.id).lean()
EditStudent(i) ==
    /\ InFlight(i, "GET /students/:id/edit", "store")
    /\ IF ~castsToObjectId(reqs[i].id)
       THEN Finish(i, "findById", UnexpectedError)
       ELSE IF ~\E o \in students : o._id = reqs[i].id.n
       THEN Finish(i, "findById", StudentNotFound)
       ELSE Finish(i, "findById",
                   RenderWith("editStudent",
                              [values |-> CHOOSE o \in students : o._id = reqs[i].id.n]))
    /\ UNCHANGED <<students, nextId, users, nextUserId, session>>

\* DeleteStudent answering 404 when findByIdAndDelete returns no document,
\* as the show and update handlers do
DeleteStudent_NotFound(i) ==
    /\ InFlight(i, "DELETE /students/:id", "store")
    /\ IF ~castsToObjectId(reqs[i].id)
       THEN /\ Finish(i, "findByIdAndDelete", UnexpectedError)
            /\ UNCHANGED students
       ELSE /\ students' = {o \in students : o._id # reqs[i].id.n}
            /\ IF \E o \in students : o._id = reqs[i].id.n
               THEN Finish(i, "findByIdAndDelete", Redirect("/students", 0, "deleted"))
               ELSE Finish(i, "findByIdAndDelete", StudentNotFound)
    /\ UNCHANGED <<nextId, users, nextUserId, session>>

\* DELETE /students/:id: await Student.findByIdAndDelete(req.params.id)
DeleteStudent(i) ==
    /\ InFlight(i, "DELETE /students/:id", "store")
    /\ IF ~castsToObjectId(reqs[i].id)
       THEN /\ Finish(i, "findByIdAndDelete", UnexpectedError)
            /\ UNCHANGED students
       ELSE /\ students' = {o \in students : o._id # reqs[i].id.n}
            /\ Finish(i, "findByIdAndDelete", Redirect("/students", 0, "deleted"))
    /\ UNCHANGED <<nextId, users, nextUserId, session>>

(***************************************************************************)
(* Student Query Builder and list handler (GET /students).  A query        *)
(* parameter is a string or Undefined; a parsed number is finite or NaN.   *)
(* Text search (q) is left to the storage layer: the queries of the model  *)
(* carry no q.                                                             *)
(***************************************************************************)
DefaultPage == 1

DefaultLimit == 10

MinLimit == 1

MaxLimit == 100

NaN == [finite |-> FALSE, n |-> 0]

Finite(n) == [finite |-> TRUE, n |-> n]

Max(a, b) == IF a >= b THEN a ELSE b

Min(a, b) == IF a <= b THEN a ELSE b

RECURSIVE DigitPrefix(_)
DigitPrefix(s) ==
    IF s # <<>> /\ Head(s) \in Range(Digits)
    THEN <<Head(s)>> \o DigitPrefix(Tail(s))
    ELSE <<>>

\* parseInt(str, 10): leading white space, a sign, the longest run of digits
parseInt(str) ==
    LET t == trimStart(str)
        digits == DigitPrefix(Unsigned(t))
    IN  IF digits = <<>> THEN NaN
        ELSE IF Head(t) = "-" THEN Finite(0 - DigitsToInt(digits))
        ELSE Finite(DigitsToInt(digits))

\* query(name).optional().toInt(): an absent parameter stays undefined
toInt(v) == IF v = Undefined THEN NaN ELSE parseInt(v)

\* parseFloat of a trimmed parameter, in 1/GpaScale units, for strings that
\* are a float or have no numeric prefix
parseFloat(v) == IF FloatSyntax(v) /\ HasDigit(v) THEN Finite(NumberOf(v)) ELSE NaN

\* const page = Math.max(1, Number.isFinite(req.query.page) ? req.query.page : 1)
pageOf(v) == Max(1, IF toInt(v).finite THEN toInt(v).n ELSE DefaultPage)

\* const limit = Math.min(100, Math.max(1, limitRaw))
limitOf(v) ==
    LET limitRaw == IF toInt(v).finite THEN toInt(v).n ELSE DefaultLimit
    IN  Min(MaxLimit, Max(MinLimit, limitRaw))

\* const skip = (page - 1) * limit
skipOf(page, limit) == (page - 1) * limit

\* totalPages with Math.floor in the place of Math.ceil
totalPagesOf_Floor(total, limit) == Max(1, total \div limit)

\* const totalPages = Math.max(1, Math.ceil(total / limit))
totalPagesOf(total, limit) == Max(1, (total + limit - 1) \div limit)

\* the gpa bound of a query parameter: undefined unless it is not empty
gpaBound(v) ==
    IF v # Undefined /\ trim(v) # <<>> THEN parseFloat(trim(v)) ELSE NaN

\* the filter the handler builds from req.query
buildFilter(query) ==
    [department |-> IF query.department # Undefined /\ trim(query.department) # <<>>
                    THEN sanitizeString(trim(query.department)) ELSE Undefined,
     gte |-> gpaBound(query.minGpa),
     lte |-> gpaBound(query.maxGpa)]

\* whether the document satisfies the filter
matches(doc, filter) ==
    /\ filter.department # Undefined => doc.department = filter.department
    /\ filter.gte.finite => doc.gpa >= filter.gte.n
    /\ filter.lte.finite => doc.gpa <= filter.lte.n

SortKeys == {"name", "rollNumber", "email", "department", "gpa", "createdAt"}

\* a sortBy or order parameter as a word
Word(v) ==
    IF v = Undefined THEN "" ELSE
    CASE trim(v) = <<"n","a","m","e">> -> "name"
      [] trim(v) = <<"r","o","l","l","N","u","m","b","e","r">> -> "rollNumber"
      [] trim(v) = <<"e","m","a","i","l">> -> "email"
      [] trim(v) = <<"d","e","p","a","r","t","m","e","n","t">> -> "department"
      [] trim(v) = <<"g","p","a">> -> "gpa"
      [] trim(v) = <<"c","r","e","a","t","e","d","A","t">> -> "createdAt"
      [] trim(v) = <<"a","s","c">> -> "asc"
      [] trim(v) = <<"d","e","s","c">> -> "desc"
      [] OTHER -> "other"

\* buildSort with 'name' as the key of a sortBy outside the allow-list
buildSort_FallbackName(sortBy, order) ==
    [key |-> IF Word(sortBy) \in SortKeys THEN Word(sortBy) ELSE "name",
     dir |-> IF Word(order) = "asc" THEN 1 ELSE -1]

\* buildSort(sortBy, order)
buildSort(sortBy, order) ==
    [key |-> IF Word(sortBy) \in SortKeys THEN Word(sortBy) ELSE "createdAt",
     dir |-> IF Word(order) = "asc" THEN 1 ELSE -1]

\* the characters of the model in code-point order
CodePoints ==
    <<" ", "+", "-", ".">> \o Digits \o <<"@">> \o Uppers \o <<"_">> \o Lowers

CodePoint(c) == CHOOSE i \in DOMAIN CodePoints : CodePoints[i] = c

\* a < b for strings, by code points
RECURSIVE StringLess(_, _)
StringLess(a, b) ==
    IF b = <<>> THEN FALSE
    ELSE IF a = <<>> THEN TRUE
    ELSE IF Head(a) = Head(b) THEN StringLess(Tail(a), Tail(b))
    ELSE CodePoint(Head(a)) < CodePoint(Head(b))

\* a sorts before b under { [key]: dir }; documents with equal keys are
\* taken in the order of their ids
Before(a, b, sort) ==
    LET less(x, y) == IF sort.key \in {"gpa", "createdAt"}
                      THEN x[sort.key] < y[sort.key]
                      ELSE StringLess(x[sort.key], y[sort.key])
    IN  IF a[sort.key] = b[sort.key] THEN a._id < b._id
        ELSE IF sort.dir = 1 THEN less(a, b) ELSE less(b, a)

RECURSIVE sorted(_, _)
sorted(docs, sort) ==
    IF docs = {} THEN <<>>
    ELSE LET first == CHOOSE d \in docs : \A e \in docs \ {d} : Before(d, e, sort)
         IN  <<first>> \o sorted(docs \ {first}, sort)

\* Student.find(filter).sort(sort).skip(skip).limit(limit).lean()
find(coll, filter, sort, skip, limit) ==
    LET all == sorted({d \in coll : matches(d, filter)}, sort)
    IN  SubSeq(all, skip + 1, Min(Len(all), skip + limit))

\* Student.countDocuments(filter)
countDocuments(coll, filter) == Cardinality({d \in coll : matches(d, filter)})

\* GET /students: the sanitizers of req.query and the handler up to
\* Promise.all([countDocuments, find])
GetStudents(query) ==
    LET page == pageOf(query.page)
        limit == limitOf(query.limit)
    IN  /\ reqs' = Append(reqs,
               NewRequest("GET /students", NoId,
                          [query |-> query, page |-> page, limit |-> limit,
                           skip |-> skipOf(page, limit),
                           filter |-> buildFilter(query),
                           sort |-> buildSort(query.sortBy, query.order),
                           counted |-> FALSE, total |-> 0,
                           found |-> FALSE, students |-> <<>>],
                          "query", NoResponse))
        /\ UNCHANGED <<students, nextId, users, nextUserId, session>>

\* GET /students: one of the two queries resolves; with both resolved the
\* handler renders the list
ListResolve(i, op, b) ==
    IF b.counted /\ b.found
    THEN reqs' = [reqs EXCEPT
             ![i].body = b, ![i].pc = "done", ![i].calls = Append(@, op),
             ![i].resp = RenderWith("students",
                 [students |-> b.students,
                  pagination |-> [page |-> b.page, limit |-> b.limit,
                                  total |-> b.total,
                                  totalPages |-> totalPagesOf(b.total, b.limit)]])]
    ELSE reqs' = [reqs EXCEPT ![i].body = b, ![i].calls = Append(@, op)]

\* GET /students: Student.countDocuments(filter) resolves
ListCount(i) ==
    /\ InFlight(i, "GET /students", "query")
    /\ ~reqs[i].body.counted
    /\ ListResolve(i, "countDocuments",
                   [reqs[i].body EXCEPT
                       !.counted = TRUE,
                       !.total = countDocuments(students, reqs[i].body.filter)])
    /\ UNCHANGED <<students, nextId, users, nextUserId, session>>

\* GET /students: Student.find(filter).sort(sort).skip(skip).limit(limit) resolves
ListFind(i) ==
    /\ InFlight(i, "GET /students", "query")
    /\ ~reqs[i].body.found
    /\ ListResolve(i, "find",
                   [reqs[i].body EXCEPT
                       !.found = TRUE,
                       !.students = find(students, reqs[i].body.filter, reqs[i].body.sort,
                                         reqs[i].body.skip, reqs[i].body.limit)])
    /\ UNCHANGED <<students, nextId, users, nextUserId, session>>

(***************************************************************************)
(* Dashboard (GET / in server.js): three store reads that resolve in any   *)
(* order, then the index view.                                             *)
(***************************************************************************)
RECURSIVE SumGpa(_)
SumGpa(coll) ==
    IF coll = {} THEN 0
    ELSE LET o == CHOOSE x \in coll : TRUE
         IN  o.gpa + SumGpa(coll \ {o})

\* Number(avg.toFixed(2)) of the average sum / count, in 1/GpaScale units
toFixed2(sum, count) == ((sum + 5 * count) \div (10 * count)) * 10

\* { $group: { _id: '$department', count: { $sum: 1 } } }, mapped to
\* { name: d._id || 'Unknown', count: d.count }
GroupByDepartment(coll) ==
    { [name |-> IF d = <<>> THEN <<"U","n","k","n","o","w","n">> ELSE d,
       count |-> Cardinality({o \in coll : o.department = d})] :
        d \in {o.department : o \in coll} }

\* { $sort: { count: -1 } }, { $limit: 5 }: the orders of the groups by
\* descending count (groups of equal count come in any order), cut at five
TopDepartments(groups) ==
    LET n == Cardinality(groups)
        orders == {f \in [1..n -> groups] :
                      /\ \A a, b \in 1..n : a # b => f[a] # f[b]
                      /\ \A a \in 1..(n - 1) : f[a].count >= f[a + 1].count}
    IN  {SubSeq(f, 1, Min(5, n)) : f \in orders}

\* the flash message of the dashboard for req.query.msg
DashboardFlash(msg) ==
    IF msg = "login_success"
    THEN "Welcome back! You have successfully logged in."
    ELSE IF msg = "logout_success"
    THEN "You have been successfully logged out."
    ELSE ""

\* GET /: the handler up to Promise.all of the three reads
GetDashboard(msg) ==
    /\ reqs' = Append(reqs,
           NewRequest("GET /", NoId,
                      [msg |-> msg,
                       counted |-> FALSE, total |-> 0,
                       grouped |-> FALSE, byDept |-> <<>>,
                       averaged |-> FALSE, avgGpa |-> NaN],
                      "query", NoResponse))
    /\ UNCHANGED <<students, nextId, users, nextUserId, session>>

\* GET /: one of the three reads resolves; with all resolved the handler
\* renders the index view
DashResolve(i, op, b) ==
    IF b.counted /\ b.grouped /\ b.averaged
    THEN reqs' = [reqs EXCEPT
             ![i].body = b, ![i].pc = "done", ![i].calls = Append(@, op),
             ![i].resp = RenderWith("index",
                 [total |-> b.total, topDepartments |-> b.byDept,
                  avgGpa |-> b.avgGpa, flashMsg |-> DashboardFlash(b.msg)])]
    ELSE reqs' = [reqs EXCEPT ![i].body = b, ![i].calls = Append(@, op)]

\* GET /: Student.estimatedDocumentCount() resolves
DashCount(i) ==
    /\ InFlight(i, "GET /", "query")
    /\ ~reqs[i].body.counted
    /\ DashResolve(i, "estimatedDocumentCount",
                   [reqs[i].body EXCEPT !.counted = TRUE,
                                        !.total = Cardinality(students)])
    /\ UNCHANGED <<students, nextId, users, nextUserId, session>>

\* GET /: the aggregate by department resolves
DashByDept(i) ==
    /\ InFlight(i, "GET /", "query")
    /\ ~reqs[i].body.grouped
    /\ \E top \in TopDepartments(GroupByDepartment(students)) :
           DashResolve(i, "aggregate",
                       [reqs[i].body EXCEPT !.grouped = TRUE, !.byDept = top])
    /\ UNCHANGED <<students, nextId, users, nextUserId, session>>

\* GET /: the aggregate of the average gpa resolves; avgGpa is null (NaN
\* here) when no student is stored
DashAvg(i) ==
    /\ InFlight(i, "GET /", "query")
    /\ ~reqs[i].body.averaged
    /\ DashResolve(i, "aggregate",
                   [reqs[i].body EXCEPT
                       !.averaged = TRUE,
                       !.avgGpa = IF students = {} THEN NaN
                                  ELSE Finite(toFixed2(SumGpa(students),
                                                       Cardinality(students)))])
    /\ UNCHANGED <<students, nextId, users, nextUserId, session>>

(***************************************************************************)
(* User schema (models/User.js) and the password hasher                    *)
(***************************************************************************)
UsernameMinLen == 3

UsernameMaxLen == 30

PasswordMinLen == 6

SaltRounds == 12

\* a password as submitted
PlainText(pw) == [alg |-> "plain", rounds |-> 0, salt |-> "", text |-> pw]

\* bcrypt.hash(pw, salt), salt from bcrypt.genSalt(rounds): the digest is a
\* function of the cost, the salt and the password, and is no plaintext
bcryptHash(pw, salt, rounds) ==
    [alg |-> "bcrypt", rounds |-> rounds, salt |-> salt, text |-> pw]

\* bcrypt.compare(candidate, hash): rehash the candidate with the salt and
\* the cost the hash carries
bcryptCompare(candidate, hash) ==
    /\ hash.alg = "bcrypt"
    /\ bcryptHash(candidate, hash.salt, hash.rounds) = hash

\* UserSchema.methods.comparePassword
comparePassword(user, candidatePassword) ==
    bcryptCompare(candidatePassword, user.password)

\* preSave that stores the password as it was submitted
preSave_NoHash(user, isModifiedPassword, salt) == user

\* UserSchema.pre('save'): hash the password when it was modified
preSave(user, isModifiedPassword, salt) ==
    IF ~isModifiedPassword THEN user
    ELSE [user EXCEPT !.password = bcryptHash(user.password.text, salt, SaltRounds)]

\* UserSchema.methods.toJSON: the document without its password
toJSON(user) == [f \in DOMAIN user \ {"password"} |-> user[f]]

\* new User({ username, email, password }): setters and defaults
castUser(f) ==
    [username |-> trim(f.username),
     email |-> trim(toLowerCase(f.email)),
     password |-> PlainText(f.password),
     role |-> "user",
     isActive |-> TRUE]

\* the schema validators of UserSchema: the paths that fail
userSchemaErrors(d) ==
    (IF Len(d.username) < UsernameMinLen \/ Len(d.username) > UsernameMaxLen
        \/ ~MatchesUsername(d.username)
     THEN {"username"} ELSE {})
    \cup (IF ~emailRegex(d.email) THEN {"email"} ELSE {})
    \cup (IF Len(d.password.text) < PasswordMinLen THEN {"password"} ELSE {})

\* the unique indexes of UserSchema
userDuplicateKeys(coll, d) ==
    (IF \E o \in coll : o.username = d.username THEN {"username"} ELSE {})
    \cup (IF \E o \in coll : o.email = d.email THEN {"email"} ELSE {})

\* signupValidators: the error messages, in chain order
signupValidators(body) ==
    LET username == trim(toString(body.username))
        email == trim(toString(body.email))
    IN  (IF Len(username) < UsernameMinLen \/ Len(username) > UsernameMaxLen
         THEN <<"Username must be between 3 and 30 characters">> ELSE <<>>)
        \o (IF ~MatchesUsername(username)
            THEN <<"Username can only contain letters, numbers, and underscores">>
            ELSE <<>>)
        \o (IF ~isEmail(email) THEN <<"Please enter a valid email address">> ELSE <<>>)
        \o (IF Len(toString(body.password)) < PasswordMinLen
            THEN <<"Password must be at least 6 characters long">> ELSE <<>>)
        \o (IF body.confirmPassword # body.password
            THEN <<"Password confirmation does not match password">> ELSE <<>>)

\* loginValidators: the error messages, in chain order
loginValidators(body) ==
    (IF ~isEmail(trim(toString(body.email)))
     THEN <<"Please enter a valid email address">> ELSE <<>>)
    \o (IF toString(body.password) = <<>> THEN <<"Password is required">> ELSE <<>>)

\* req.body after the sanitizers of signupValidators or loginValidators
sanitizedAuthBody(body) ==
    IF "username" \in DOMAIN body
    THEN [body EXCEPT !.username = trim(toString(body.username)),
                      !.email = normalizeEmail(trim(toString(body.email)))]
    ELSE [body EXCEPT !.email = normalizeEmail(trim(toString(body.email)))]

(***************************************************************************)
(* Authentication handlers (routes/authRoutes.js) and the session          *)
(* (server.js).  session is the content of the browser session in the      *)
(* session store: Anonymous when it holds no user.                         *)
(***************************************************************************)
Anonymous == [userId |-> 0, username |-> <<>>, role |-> ""]

Salts == {"salt1", "salt2"}

\* POST /signup: validationResult(req)
SignupPost(body) ==
    LET errors == signupValidators(body)
    IN  /\ reqs' = Append(reqs,
               IF errors # <<>>
               THEN NewRequest("POST /signup", NoId, body, "done",
                               Render(422, "signup", errors))
               ELSE NewRequest("POST /signup", NoId, sanitizedAuthBody(body), "findOne",
                               NoResponse))
        /\ UNCHANGED <<students, nextId, users, nextUserId, session>>

\* POST /signup: await User.findOne({ $or: [{ email }, { username }] })
SignupFindOne(i) ==
    /\ InFlight(i, "POST /signup", "findOne")
    /\ LET matching == {u \in users : u.email = reqs[i].body.email
                                      \/ u.username = reqs[i].body.username}
       IN  IF matching = {}
           THEN reqs' = [reqs EXCEPT ![i].pc = "save", ![i].calls = Append(@, "findOne")]
           ELSE \E existingUser \in matching :
                    Finish(i, "findOne",
                           IF existingUser.email = reqs[i].body.email
                           THEN Render(409, "signup", <<"Email already registered">>)
                           ELSE Render(409, "signup", <<"Username already taken">>))
    /\ UNCHANGED <<students, nextId, users, nextUserId, session>>

\* the answer of the signup handler to an error thrown by user.save()
SignupSaveError ==
    Render(500, "signup", <<"An error occurred during signup. Please try again.">>)

\* POST /signup: new User({...}), await user.save(), redirect
SignupSave(i) ==
    /\ InFlight(i, "POST /signup", "save")
    /\ LET doc == castUser(reqs[i].body)
           dup == userDuplicateKeys(users, doc)
       IN  IF userSchemaErrors(doc) # {}
           THEN /\ Finish(i, "save", SignupSaveError)
                /\ UNCHANGED <<users, nextUserId>>
           ELSE IF dup # {}
           THEN /\ Finish(i, "save", SignupSaveError)
                /\ UNCHANGED <<users, nextUserId>>
           ELSE \E salt \in Salts :
                    /\ users' = users \cup
                           {[_id |-> nextUserId] @@ preSave(doc, TRUE, salt)}
                    /\ nextUserId' = nextUserId + 1
                    /\ Finish(i, "save", Redirect("/login", 0, "signup_success"))
    /\ UNCHANGED <<students, nextId, session>>

\* POST /login: validationResult(req)
LoginPost(body) ==
    LET errors == loginValidators(body)
    IN  /\ reqs' = Append(reqs,
               IF errors # <<>>
               THEN NewRequest("POST /login", NoId, body, "done",
                               Render(422, "login", errors))
               ELSE NewRequest("POST /login", NoId, sanitizedAuthBody(body), "findOne",
                               NoResponse))
        /\ UNCHANGED <<students, nextId, users, nextUserId, session>>

InvalidCredentials == Render(401, "login", <<"Invalid email or password">>)

AccountDeactivated ==
    Render(401, "login", <<"Account is deactivated. Please contact administrator.">>)

\* LoginResponse that does not look at isActive
LoginResponse_NoActiveCheck(user, password) ==
    IF ~comparePassword(user, password) THEN InvalidCredentials
    ELSE Redirect("/", 0, "login_success")

\* LoginResponse that tells a wrong password from an unknown email
LoginResponse_WrongPasswordMessage(user, password) ==
    IF ~user.isActive THEN AccountDeactivated
    ELSE IF ~comparePassword(user, password)
    THEN Render(401, "login", <<"Incorrect password">>)
    ELSE Redirect("/", 0, "login_success")

\* the response of the login handler for a user that findOne returned
LoginResponse(user, password) ==
    IF ~user.isActive THEN AccountDeactivated
    ELSE IF ~comparePassword(user, password) THEN InvalidCredentials
    ELSE Redirect("/", 0, "login_success")

\* req.session.userId = user._id; .username = user.username; .role = user.role
SessionOf(user) == [userId |-> user._id, username |-> user.username, role |-> user.role]

\* POST /login: await User.findOne({ email }), user.isActive,
\* await user.comparePassword(password), set the session, redirect
LoginAuthenticate(i) ==
    /\ InFlight(i, "POST /login", "findOne")
    /\ LET found == {u \in users : u.email = reqs[i].body.email}
       IN  IF found = {}
           THEN /\ Finish(i, "findOne", InvalidCredentials)
                /\ UNCHANGED session
           ELSE \E user \in found :
                    LET resp == LoginResponse(user, reqs[i].body.password)
                    IN  /\ Finish(i, "findOne", resp)
                        /\ session' = IF resp.status = 302 THEN SessionOf(user)
                                      ELSE session
    /\ UNCHANGED <<students, nextId, users, nextUserId>>

\* GET /logout: req.session.destroy(callback), redirect in the callback;
\* the MemoryStore that server.js configures never fails to destroy
Logout ==
    /\ session' = Anonymous
    /\ reqs' = Append(reqs, NewRequest("GET /logout", NoId, NoBody, "done",
                                       Redirect("/", 0, "logout_success")))
    /\ UNCHANGED <<students, nextId, users, nextUserId>>

\* cookie.maxAge: the session expires 24 hours after it was last saved
SessionExpires ==
    /\ session # Anonymous
    /\ session' = Anonymous
    /\ UNCHANGED <<students, nextId, users, nextUserId, reqs>>

(***************************************************************************)
(* The student store under concurrent create, update, show and delete      *)
(* requests.                                                               *)
(***************************************************************************)
MaxReqs == 3

BaseBody ==
    [name |-> <<"A","l">>, rollNumber |-> <<"r","1">>,
     email |-> <<"a","@","x",".","i","o">>, department |-> <<"c","s">>,
     customDepartment |-> Undefined, gpa |-> <<"3",".","5">>]

Physics == <<"P","h","y","s","i","c","s">>

\* bodies whose roll numbers and emails collide and do not collide
StudentBodies ==
    { BaseBody,
      [BaseBody EXCEPT !.rollNumber = <<" ","R","1">>,
                       !.email = <<"b","@","x",".","i","o">>],
      [BaseBody EXCEPT !.rollNumber = <<"r","2">>,
                       !.email = <<"A","@","x",".","i","o"," ">>],
      [BaseBody EXCEPT !.rollNumber = <<"r","2">>,
                       !.email = <<"b","@","x",".","i","o">>,
                       !.department = Custom, !.customDepartment = Physics,
                       !.gpa = <<"4">>] }

\* the updates of the first document with every body and of the second
\* with the first body, and the deletes of both
PutRequests == ({ObjectId(1)} \X StudentBodies) \cup {<<ObjectId(2), BaseBody>>}

GetRequests == {"DELETE /students/:id"} \X {ObjectId(1), ObjectId(2)}

Init ==
    /\ students = {}
    /\ nextId = 1
    /\ users = {}
    /\ nextUserId = 1
    /\ session = Anonymous
    /\ reqs = <<>>

Arrive ==
    /\ Len(reqs) < MaxReqs
    /\ \/ \E body \in StudentBodies : PostStudents(body)
       \/ \E r \in PutRequests : PutStudent(r[1], r[2])
       \/ \E r \in GetRequests : GetById(r[1], r[2])

Next ==
    \/ Arrive
    \/ \E i \in DOMAIN reqs : SaveStudent(i)
    \/ \E i \in DOMAIN reqs : UpdateStudent(i)
    \/ \E i \in DOMAIN reqs : DeleteStudent(i)

Spec == Init /\ [][Next]_vars

(***************************************************************************)
(* Properties of the student store                                         *)
(***************************************************************************)
\* the key under which a submitted roll number is unique
RollKey(body) == toLowerCase(trim(body.rollNumber))

\* the key under which a submitted email is unique
EmailKey(body) == toLowerCase(trim(body.email))

Creates == {i \in DOMAIN reqs : reqs[i].kind = "POST /students"}

Updates == {i \in DOMAIN reqs : reqs[i].kind = "PUT /students/:id"}

Done(i) == reqs[i].pc = "done"

\* the request got past its validators and invoked the store
CalledStore(i) == reqs[i].calls # <<>>

Succeeded(i) == Done(i) /\ reqs[i].resp.status < 400

\* two valid creates with the same roll number and different emails, both
\* finished, while no other request has touched the store
RacingCreates(i, j) ==
    /\ i \in Creates /\ j \in Creates /\ i # j
    /\ Done(i) /\ Done(j) /\ CalledStore(i) /\ CalledStore(j)
    /\ RollKey(reqs[i].body) = RollKey(reqs[j].body)
    /\ EmailKey(reqs[i].body) # EmailKey(reqs[j].body)
    /\ \A k \in DOMAIN reqs \ {i, j} : ~CalledStore(k)

\* C1: of two create requests with the same rollNumber (case-insensitively)
\* and otherwise valid, non-colliding fields, in whatever order their saves
\* run, exactly one succeeds and persists a student and the other is
\* answered 409 for the duplicate rollNumber
C1_ExactlyOneCreateWins ==
    \A i, j \in DOMAIN reqs :
        RacingCreates(i, j) =>
            /\ Succeeded(i) # Succeeded(j)
            /\ \A k \in {i, j} :
                   ~Succeeded(k) =>
                       reqs[k].resp = Render(409, "addStudent", <<"rollNumber must be unique">>)
            /\ Cardinality({o \in students :
                                toLowerCase(o.rollNumber) = RollKey(reqs[i].body)}) = 1

\* C1 witness: the second of two racing creates, submitted with another
\* letter case, lost
C1_Witness ==
    \E i, j \in DOMAIN reqs :
        /\ RacingCreates(i, j)
        /\ reqs[i].body.rollNumber # reqs[j].body.rollNumber
        /\ i < j /\ Succeeded(i) /\ reqs[j].resp.status = 409

UniqueKeys ==
    \A a, b \in students :
        a._id # b._id =>
            /\ toLowerCase(a.rollNumber) # toLowerCase(b.rollNumber)
            /\ a.email # b.email

\* an update's store step: it is answered 409, and changes nothing, exactly
\* when another record has its roll number or its email
UpdateStep ==
    \A i \in Updates :
        (reqs[i].pc = "update" /\ reqs'[i].pc = "done"
         /\ \E o \in students : o._id = reqs[i].id.n) =>
            LET collides ==
                    \E o \in students :
                        /\ o._id # reqs[i].id.n
                        /\ \/ toLowerCase(o.rollNumber) = RollKey(reqs[i].body)
                           \/ o.email = EmailKey(reqs[i].body)
            IN  /\ collides => reqs'[i].resp.status = 409 /\ students' = students
                /\ ~collides => reqs'[i].resp.status # 409

\* C2: no two stored students ever share a rollNumber (case-insensitively)
\* or an email; an update that would collide with a different record is
\* answered 409 and changes no record; an update that keeps the record's own
\* rollNumber and email is not a collision
C2_UniqueAcrossUpdates == []UniqueKeys /\ [][UpdateStep]_vars

\* C2 witness: an update of an existing record was refused with 409 while
\* two records are stored
C2_Witness ==
    /\ Cardinality(students) = 2
    /\ \E i \in Updates :
           /\ reqs[i].resp.status = 409
           /\ \E o \in students : o._id = reqs[i].id.n

\* C9 as stated: a successful create redirects to the detail view of the
\* new record with msg=created, a successful update to the detail view of
\* the updated record with msg=updated
C9_CreateRedirectsToDetail ==
    /\ \A i \in Creates :
           Succeeded(i) =>
               /\ reqs[i].resp.location.path = "/students/:id"
               /\ reqs[i].resp.location.msg = "created"
    /\ \A i \in Updates :
           Succeeded(i) => reqs[i].resp = Redirect("/students/:id", reqs[i].id.n, "updated")

\* C9 amended: a successful create redirects to the list view
\* /students?msg=created, a successful update to the detail view
\* /students/<id>?msg=updated of the updated record
C9_CreateRedirectsToList ==
    /\ \A i \in Creates :
           Succeeded(i) => reqs[i].resp = Redirect("/students", 0, "created")
    /\ \A i \in Updates :
           Succeeded(i) => reqs[i].resp = Redirect("/students/:id", reqs[i].id.n, "updated")

\* C9 witness: a create and an update of the created record both succeeded
C9_Witness ==
    \E i \in Creates, j \in Updates :
        /\ Succeeded(i) /\ Succeeded(j)
        /\ \E o \in students : o._id = reqs[j].id.n

(***************************************************************************)
(* Signup, login, logout and session expiry, concurrently with student     *)
(* requests of the same browser session.  The user store starts with the   *)
(* accounts that exist when the server starts: an active administrator     *)
(* and a deactivated user (no handler changes isActive or role).           *)
(***************************************************************************)
MaxAuthReqs == 3

Secret == <<"s","e","c","r","e","t">>

Wrong == <<"w","r","o","n","g","1">>

SeedUsers ==
    { [_id |-> 1, username |-> <<"r","o","o","t">>,
       email |-> <<"r","@","x",".","i","o">>,
       password |-> bcryptHash(Secret, "salt1", SaltRounds),
       role |-> "admin", isActive |-> TRUE],
      [_id |-> 2, username |-> <<"c","a","r","o","l">>,
       email |-> <<"c","@","x",".","i","o">>,
       password |-> bcryptHash(Secret, "salt2", SaltRounds),
       role |-> "user", isActive |-> FALSE] }

Alice ==
    [username |-> <<"a","l","i","c","e">>, email |-> <<"a","@","x",".","i","o">>,
     password |-> Secret, confirmPassword |-> Secret]

\* signups that collide on the username, on the email (after normalisation)
\* and one that fails validation
SignupBodies ==
    { Alice,
      [Alice EXCEPT !.email = <<"b","@","x",".","i","o">>],
      [Alice EXCEPT !.username = <<"b","o","b">>,
                    !.email = <<" ","A","@","x",".","i","o">>],
      [Alice EXCEPT !.confirmPassword = Wrong] }

\* logins: alice, an unknown user unless she signed up, with the right and
\* a wrong password; the administrator; the deactivated user; no email
LoginBodies ==
    { [email |-> <<"a","@","x",".","i","o">>, password |-> Secret],
      [email |-> <<"A","@","x",".","i","o">>, password |-> Wrong],
      [email |-> <<"r","@","x",".","i","o">>, password |-> Secret],
      [email |-> <<"r","@","x",".","i","o">>, password |-> Wrong],
      [email |-> <<"c","@","x",".","i","o">>, password |-> Secret],
      [email |-> <<"x",".","i","o">>, password |-> <<>>] }

InitAuth ==
    /\ students = {}
    /\ nextId = 1
    /\ users = SeedUsers
    /\ nextUserId = 3
    /\ session = Anonymous
    /\ reqs = <<>>

ArriveAuth ==
    /\ Len(reqs) < MaxAuthReqs
    /\ \/ \E body \in SignupBodies : SignupPost(body)
       \/ \E body \in LoginBodies : LoginPost(body)
       \/ Logout
       \/ PostStudents(BaseBody)
       \/ \E kind \in {"GET /students/:id", "DELETE /students/:id"} :
              GetById(kind, ObjectId(1))

NextAuth ==
    \/ ArriveAuth
    \/ \E i \in DOMAIN reqs : SignupFindOne(i)
    \/ \E i \in DOMAIN reqs : SignupSave(i)
    \/ \E i \in DOMAIN reqs : LoginAuthenticate(i)
    \/ SessionExpires
    \/ \E i \in DOMAIN reqs : SaveStudent(i)
    \/ \E i \in DOMAIN reqs : ShowStudent(i)
    \/ \E i \in DOMAIN reqs : DeleteStudent(i)

SpecAuth == InitAuth /\ [][NextAuth]_vars

(***************************************************************************)
(* Properties of signup, login and the session                             *)
(***************************************************************************)
Signups == {i \in DOMAIN reqs : reqs[i].kind = "POST /signup"}

Logins == {i \in DOMAIN reqs : reqs[i].kind = "POST /login"}

\* C3: a signup that passed validation and persisted no user, because its
\* username or email was taken, was answered 409 with the message of the
\* field that collided, however the collision was found
C3_CollidingSignupGets409 ==
    \A i \in Signups :
        (Done(i) /\ CalledStore(i) /\ reqs[i].resp.status # 302) =>
            reqs[i].resp \in {Render(409, "signup", <<"Email already registered">>),
                              Render(409, "signup", <<"Username already taken">>)}

\* the login i ends in this step
LoginEnds(i) == i \in Logins /\ reqs[i].pc = "findOne" /\ reqs'[i].pc = "done"

\* the stored user the login i authenticates: active, with the email and
\* the password that were submitted
Authenticates(i, u) ==
    /\ u \in users
    /\ u.email = reqs[i].body.email
    /\ u.isActive
    /\ u.password.text = reqs[i].body.password

\* a request that arrives in this step
Arrives(kind) ==
    /\ Len(reqs') = Len(reqs) + 1
    /\ reqs'[Len(reqs')].kind = kind

\* the session changes only by a login that authenticates a user, and then
\* to that user, or by a logout
SessionChangesByLoginOrLogout ==
    session' # session =>
        \/ \E i \in Logins : LoginEnds(i) /\ \E u \in users : Authenticates(i, u)
        \/ Arrives("GET /logout")

SessionExpired == reqs' = reqs /\ session # Anonymous /\ session' = Anonymous

\* what a login and a logout do to the session and answer
LoginAndLogoutEffect ==
    /\ \A i \in Logins :
           LoginEnds(i) =>
               IF \E u \in users : Authenticates(i, u)
               THEN /\ \E u \in users :
                           /\ Authenticates(i, u)
                           /\ session' = [userId |-> u._id, username |-> u.username,
                                          role |-> u.role]
                    /\ reqs'[i].resp = Redirect("/", 0, "login_success")
               ELSE /\ session' = session
                    /\ reqs'[i].resp.status = 401
    /\ Arrives("POST /login") =>
           (reqs'[Len(reqs')].pc = "done" => reqs'[Len(reqs')].resp.status = 422)
    /\ Arrives("GET /logout") =>
           /\ session' = Anonymous
           /\ reqs'[Len(reqs')].resp = Redirect("/", 0, "logout_success")

\* C4 as stated: the session changes only by a successful login, to the
\* user it authenticated, and by logout, to Anonymous; every other step
\* leaves it as it was
C4_OnlyLoginAndLogout ==
    [][SessionChangesByLoginOrLogout /\ LoginAndLogoutEffect]_vars

\* C4 amended: the session changes only by a successful login, to the user
\* it authenticated, by logout, to Anonymous with the redirect
\* /?msg=logout_success, and by its expiry, to Anonymous; every other
\* request, failed logins included, leaves it as it was
C4_LoginLogoutOrExpiry ==
    [][(SessionExpired \/ SessionChangesByLoginOrLogout) /\ LoginAndLogoutEffect]_vars

\* C4 witness: the session is the administrator's after a login succeeded
C4_Witness ==
    /\ session.role = "admin"
    /\ \E i \in Logins : Done(i) /\ reqs[i].resp = Redirect("/", 0, "login_success")
    /\ \E i \in Logins : Done(i) /\ reqs[i].resp.status = 401

\* a login with an email of no user, or with a wrong password for an
\* active user, ends with the one generic 401 and the session as it was
GenericLoginFailure ==
    \A i \in Logins :
        (/\ LoginEnds(i)
         /\ \/ ~\E u \in users : u.email = reqs[i].body.email
            \/ \E u \in users : /\ u.email = reqs[i].body.email
                                /\ u.isActive
                                /\ u.password.text # reqs[i].body.password) =>
            /\ reqs'[i].resp = Render(401, "login", <<"Invalid email or password">>)
            /\ session' = session

\* C5: a login with an unknown email and a login with an active user's
\* email and a wrong password get the same response, 401 with the single
\* message 'Invalid email or password', and leave the session unchanged
C5_SameGenericFailure == [][GenericLoginFailure]_vars

\* C5 witness: both kinds of failed login have happened, with one response
C5_Witness ==
    \E i, j \in Logins :
        /\ Done(i) /\ Done(j) /\ CalledStore(i) /\ CalledStore(j)
        /\ ~\E u \in users : u.email = reqs[i].body.email
        /\ \E u \in users : /\ u.email = reqs[j].body.email
                            /\ u.isActive
                            /\ u.password.text # reqs[j].body.password
        /\ reqs[i].resp = reqs[j].resp
        /\ reqs[i].resp.status = 401

\* C6: every stored password is the bcrypt hash, at the configured cost, of
\* the password that was submitted and never the plaintext; saving a user
\* whose password was not modified does not hash again; and toJSON of a
\* user has no password field
C6_PasswordAlwaysHashed ==
    /\ \A u \in users :
           /\ u.password.alg = "bcrypt"
           /\ u.password.rounds = SaltRounds
           /\ u.password # PlainText(u.password.text)
           /\ \A salt \in Salts : preSave(u, FALSE, salt) = u
           /\ "password" \notin DOMAIN toJSON(u)
           /\ \A f \in DOMAIN u \ {"password"} : toJSON(u)[f] = u[f]
    /\ \A i \in Signups :
           Succeeded(i) =>
               \E u \in users :
                   /\ u.username = reqs[i].body.username
                   /\ u.password \in {bcryptHash(reqs[i].body.password, salt, SaltRounds) :
                                          salt \in Salts}
                   /\ comparePassword(u, reqs[i].body.password)

\* C6 witness: a signup has just persisted a user
C6_Witness ==
    \E i \in Signups : Succeeded(i) /\ Cardinality(users) > Cardinality(SeedUsers)

(***************************************************************************)
(* Single requests with valid and invalid inputs against a store that      *)
(* holds one student.                                                      *)
(***************************************************************************)
MaxValReqs == 1

SeedStudents ==
    { [_id |-> 1, name |-> <<"Z","e","d">>, rollNumber |-> <<"r","9">>,
       email |-> <<"z","@","x",".","i","o">>, department |-> <<"e","e">>,
       gpa |-> 2 * GpaScale, createdAt |-> 1] }

\* gpa submissions that denote a number in [0, 4]
GpaInside ==
    {<<"0">>, <<"4">>, <<"4",".","0">>, <<"-","0">>, <<"2",".","7","5">>,
     <<"0",".","0">>, <<"+","4">>, <<"4",".">>, <<".","5">>,
     <<"3",".","9","9","9","9">>, <<"0",".","0","0","0","1">>,
     <<"4",".","0","0","0","0">>}

\* gpa submissions that denote a number below 0 or above 4
GpaOutside ==
    {<<"4",".","0","0","1">>, <<"5">>, <<"-","0",".","5">>, <<"-","1">>,
     <<"1","0","0">>, <<"4",".","0","0","0","1">>,
     <<"-","0",".","0","0","0","1">>, <<"-",".","5">>}

\* the valid body with one field replaced, for each field by values that
\* keep and that break its rule
FieldBodies ==
    {[BaseBody EXCEPT !.name = v] :
        v \in {<<>>, <<"A">>, <<" ","A","l"," ">>, <<" ","A"," ">>,
               Repeat("n", NameMaxLen), Repeat("n", NameMaxLen + 1)}}
    \cup {[BaseBody EXCEPT !.rollNumber = v] :
        v \in {<<>>, <<"R","-","1">>, <<"r"," ","1">>, <<"r","_","1">>}}
    \cup {[BaseBody EXCEPT !.email = v] :
        v \in {<<>>, <<"b","a","d">>, <<"A","@","X",".","i","o">>, <<"a","@","x">>}}
    \cup {[BaseBody EXCEPT !.department = v] :
        v \in {<<>>, <<" ">>, Repeat("d", DepartmentMaxLen),
               Repeat("d", DepartmentMaxLen + 1)}}
    \cup {[BaseBody EXCEPT !.department = Custom, !.customDepartment = v] :
        v \in {Undefined, <<>>, <<" ">>, <<"P">>, <<" ","P"," ">>, <<" ">> \o Physics,
               Repeat("d", CustomDepartmentMaxLen),
               Repeat("d", CustomDepartmentMaxLen + 1),
               Custom, <<" ">> \o Custom}}
    \cup {[BaseBody EXCEPT !.department = <<" ">> \o Custom \o <<" ">>,
                           !.customDepartment = Physics \o <<" ">>]}
    \cup {[BaseBody EXCEPT !.customDepartment = Physics]}
    \cup {[BaseBody EXCEPT !.gpa = v] :
        v \in GpaInside \cup GpaOutside
              \cup {<<>>, <<"a","b","c">>, <<"-",".">>, <<" ","4">>, <<"4",".","0",".","0">>}}

ValidateIds == {ObjectId(1), ObjectId(2), BadId, TwelveBytesId}

InitValidate ==
    /\ students = SeedStudents
    /\ nextId = 2
    /\ users = {}
    /\ nextUserId = 1
    /\ session = Anonymous
    /\ reqs = <<>>

ArriveValidate ==
    /\ Len(reqs) < MaxValReqs
    /\ \/ \E body \in FieldBodies : PostStudents(body)
       \/ \E body \in FieldBodies : PutStudent(ObjectId(1), body)
       \/ \E id \in ValidateIds : PutStudent(id, BaseBody)
       \/ \E id \in ValidateIds :
              \E kind \in {"GET /students/:id", "GET /students/:id/edit",
                           "DELETE /students/:id"} : GetById(kind, id)

NextValidate ==
    \/ ArriveValidate
    \/ \E i \in DOMAIN reqs : SaveStudent(i)
    \/ \E i \in DOMAIN reqs : UpdateStudent(i)
    \/ \E i \in DOMAIN reqs : ShowStudent(i)
    \/ \E i \in DOMAIN reqs : EditStudent(i)
    \/ \E i \in DOMAIN reqs : DeleteStudent(i)

SpecValidate == InitValidate /\ [][NextValidate]_vars

\* the field rules of a student input, on the submitted values
ViolatesFieldRule(body) ==
    \/ Len(trim(toString(body.name))) < NameMinLen
    \/ Len(trim(toString(body.name))) > NameMaxLen
    \/ ~MatchesRollNumber(trim(toString(body.rollNumber)))
    \/ ~isEmail(trim(toString(body.email)))
    \/ trim(toString(body.department)) = <<>>
    \/ Len(trim(toString(body.department))) > DepartmentMaxLen
    \/ ~isFloat(toString(body.gpa), GpaMin, GpaMax)

\* C7: a create or update whose input violates a field rule is answered
\* 422 by the Validation Layer and changes nothing, and the store rejects
\* no input that the Validation Layer accepted
C7_ValidationMatchesSchema ==
    \A i \in Creates \cup Updates :
        /\ ViolatesFieldRule(reqs[i].body) =>
               /\ reqs[i].pc = "done"
               /\ reqs[i].resp.status = 422
               /\ ~CalledStore(i)
        /\ (Done(i) /\ CalledStore(i)) => reqs[i].resp.status # 500

\* C8: a show, edit-form or delete request whose :id is no valid identifier
\* fails with a validation error and invokes no store operation
C8_InvalidIdNeverReachesStore ==
    \A i \in DOMAIN reqs :
        (/\ reqs[i].kind \in {"GET /students/:id", "GET /students/:id/edit",
                              "DELETE /students/:id"}
         /\ ~isMongoId(reqs[i].id)) =>
            /\ ~CalledStore(i)
            /\ Done(i) => reqs[i].resp.status = 422

\* the document a finished create or update of SpecValidate wrote: the one
\* the create inserted, or the one the update names
Written(i) ==
    IF i \in Creates
    THEN {o \in students : \A e \in SeedStudents : o._id # e._id}
    ELSE {o \in students : o._id = reqs[i].id.n}

\* the submitted department is the sentinel
SubmitsCustom(i) == trim(toString(reqs[i].body.department)) = Custom

\* customDepartment has a trimmed length between 2 and 100
CustomDepartmentFits(body) ==
    /\ body.customDepartment # Undefined
    /\ Len(trim(body.customDepartment)) >= 2
    /\ Len(trim(body.customDepartment)) <= 100

\* C12: on create and on update with the department 'custom', the request
\* is accepted only if customDepartment has a trimmed length between 2 and
\* 100, and the department then persisted is the trimmed customDepartment
\* and not the sentinel 'custom'; with customDepartment missing, blank, too
\* short or too long the answer is 422 and nothing is persisted
C12_CustomDepartmentPersisted ==
    \A i \in Creates \cup Updates :
        SubmitsCustom(i) =>
            /\ ~CustomDepartmentFits(reqs[i].body) =>
                   /\ Done(i)
                   /\ reqs[i].resp.status = 422
                   /\ ~CalledStore(i)
                   /\ students = SeedStudents
            /\ Succeeded(i) =>
                   /\ CustomDepartmentFits(reqs[i].body)
                   /\ \E o \in Written(i) :
                          /\ o.department = trim(reqs[i].body.customDepartment)
                          /\ o.department # Custom

\* a create, or an update of the stored student, whose fields other than
\* gpa are the valid, non-colliding ones
OtherFieldsValid(i) ==
    /\ i \in Creates \cup Updates
    /\ [reqs[i].body EXCEPT !.gpa = BaseBody.gpa] = BaseBody
    /\ i \in Updates => reqs[i].id = ObjectId(1)

\* no stored student other than the one the request replaces holds the
\* roll number or the email of the request, and an update finds its student
NonColliding(i) ==
    /\ \A o \in students :
           (i \in Updates /\ o._id = reqs[i].id.n) \/
           (o.rollNumber # BaseBody.rollNumber /\ o.email # BaseBody.email)
    /\ i \in Updates => \E o \in students : o._id = reqs[i].id.n

\* a gpa outside [0, 4] is answered 422 by the validators and reaches no
\* store operation; a gpa inside is rejected by neither layer
GpaDecidesValidation ==
    \A i \in DOMAIN reqs :
        OtherFieldsValid(i) =>
            /\ reqs[i].body.gpa \in GpaOutside =>
                   /\ Done(i)
                   /\ reqs[i].resp.status = 422
                   /\ ~CalledStore(i)
            /\ reqs[i].body.gpa \in GpaInside =>
                   /\ reqs[i].resp.status \notin {422, 500}
                   /\ Done(i) => CalledStore(i)

\* the store step of a non-colliding request with a gpa inside [0, 4]
\* succeeds and persists the gpa
GpaInsidePersists ==
    \A i \in DOMAIN reqs :
        (/\ OtherFieldsValid(i) /\ ~Done(i) /\ NonColliding(i)
         /\ reqs'[i].pc = "done") =>
            /\ reqs'[i].resp.status = 302
            /\ \E o \in students' :
                   /\ o.rollNumber = BaseBody.rollNumber
                   /\ i \in Updates => o._id = reqs[i].id.n
                   /\ o.gpa >= 0 /\ o.gpa <= 4 * GpaScale
                   /\ reqs[i].body.gpa \in {<<"0">>, <<"-","0">>, <<"0",".","0">>}
                          => o.gpa = 0
                   /\ reqs[i].body.gpa \in {<<"4">>, <<"4",".","0">>, <<"+","4">>, <<"4",".">>}
                          => o.gpa = 4 * GpaScale

\* C13: with all other fields valid and non-colliding, a create or update
\* is accepted by the Validation Layer and by the storage schema exactly
\* when 0 <= gpa <= 4: gpa 0 and gpa 4 succeed and are persisted, and a gpa
\* below 0 or above 4 is answered 422 and persists nothing
C13_GpaBoundsInclusive == []GpaDecidesValidation /\ [][GpaInsidePersists]_vars

\* C13 witness: an update stored the gpa 4 on the student it names
C13_Witness ==
    \E i \in Updates :
        /\ OtherFieldsValid(i) /\ Succeeded(i)
        /\ reqs[i].body.gpa = <<"4">>
        /\ \E o \in students : o._id = 1 /\ o.gpa = 4 * GpaScale

(***************************************************************************)
(* The list handler on stores of every size up to MaxTotal, with no        *)
(* writer: one list request, its parameters drawn from ListQueries.        *)
(***************************************************************************)
MaxTotal == 26

RECURSIVE IntToDigits(_)
IntToDigits(n) ==
    IF n < 10 THEN <<Digits[n + 1]>>
    ELSE IntToDigits(n \div 10) \o <<Digits[(n % 10) + 1]>>

\* the store after n creates with distinct roll numbers and emails
SeedMany(n) ==
    { [_id |-> k, name |-> <<"S","t","u">>,
       rollNumber |-> <<"s">> \o IntToDigits(k),
       email |-> <<"s">> \o IntToDigits(k) \o <<"@","x",".","i","o">>,
       department |-> IF k % 5 = 0 THEN <<"e","e">> ELSE <<"c","s">>,
       gpa |-> (k % 5) * GpaScale,
       createdAt |-> k] : k \in 1..n }

NoQuery ==
    [page |-> Undefined, limit |-> Undefined, department |-> Undefined,
     minGpa |-> Undefined, maxGpa |-> Undefined, sortBy |-> Undefined,
     order |-> Undefined]

PageParams ==
    {Undefined, <<>>, <<"a","b","c">>, <<"0">>, <<"-","1">>, <<"1">>, <<"2">>,
     <<"3">>, <<"4">>, <<"2",".","7">>}

LimitParams ==
    {Undefined, <<"x">>, <<"0">>, <<"-","5">>, <<"1">>, <<"1","0">>,
     <<"1","0","0">>, <<"1","0","1">>}

\* no filter; a department; a gpa range; a sort
FilterParams ==
    { NoQuery,
      [NoQuery EXCEPT !.department = <<"c","s">>],
      [NoQuery EXCEPT !.minGpa = <<"1">>, !.maxGpa = <<"3",".","5">>,
                      !.sortBy = <<"g","p","a">>, !.order = <<"a","s","c">>] }

\* sortBy values: absent, empty, unknown, an allowed key in another case,
\* an allowed key between spaces
SortByParams ==
    {Undefined, <<>>, <<"a","g","e">>, <<"N","a","m","e">>,
     <<" ","g","p","a"," ">>}

OrderParams ==
    {Undefined, <<"a","s","c">>, <<"d","e","s","c">>, <<"A","S","C">>,
     <<" ","a","s","c">>}

SortQueries ==
    {[NoQuery EXCEPT !.sortBy = s, !.order = o] :
        s \in SortByParams, o \in OrderParams}

ListQueries ==
    {[f EXCEPT !.page = p, !.limit = l] :
        f \in FilterParams, p \in PageParams, l \in LimitParams}
    \cup SortQueries

InitList ==
    /\ \E n \in 0..MaxTotal : students = SeedMany(n) /\ nextId = n + 1
    /\ users = {}
    /\ nextUserId = 1
    /\ session = Anonymous
    /\ reqs = <<>>

NextList ==
    \/ reqs = <<>> /\ \E query \in ListQueries : GetStudents(query)
    \/ \E i \in DOMAIN reqs : ListCount(i)
    \/ \E i \in DOMAIN reqs : ListFind(i)

SpecList == InitList /\ [][NextList]_vars

Lists == {i \in DOMAIN reqs : reqs[i].kind = "GET /students"}

\* the integer a page or limit parameter denotes, when it denotes one
Denotes(v) == v # Undefined /\ parseInt(v).finite

\* the least number of pages of size limit that hold total records
Ceiling(total, limit) ==
    CHOOSE k \in 0..total : k * limit >= total /\ \A j \in 0..(k - 1) : j * limit < total

\* the students that match the filter parameters of the query
Matching(query) ==
    {o \in students :
        /\ query.department # Undefined => o.department = trim(query.department)
        /\ query.minGpa # Undefined => o.gpa >= NumberOf(query.minGpa)
        /\ query.maxGpa # Undefined => o.gpa <= NumberOf(query.maxGpa)}

\* C10: for every page and limit parameter and every number of matching
\* students, page is max(1, page) with default 1, limit is clamped to
\* [1,100] with default 10, skip is (page-1)*limit, totalPages is
\* max(1, ceil(total/limit)), and with no concurrent write the page holds
\* min(limit, max(0, total - skip)) records; 25 matches with limit 10 give
\* 10 records on page 1, 3 pages, and no record on page 4
C10_Pagination ==
    \A i \in Lists :
        LET b == reqs[i].body
            q == b.query
            total == Cardinality(Matching(q))
            p == reqs[i].resp.locals.pagination
        IN  /\ b.page = (IF Denotes(q.page) /\ parseInt(q.page).n > 1
                         THEN parseInt(q.page).n ELSE 1)
            /\ b.limit = (IF ~Denotes(q.limit) THEN 10
                          ELSE IF parseInt(q.limit).n < 1 THEN 1
                          ELSE IF parseInt(q.limit).n > 100 THEN 100
                          ELSE parseInt(q.limit).n)
            /\ b.skip = (b.page - 1) * b.limit
            /\ Done(i) =>
                   /\ reqs[i].resp.status = 200
                   /\ p = [page |-> b.page, limit |-> b.limit, total |-> total,
                           totalPages |-> Max(1, Ceiling(total, b.limit))]
                   /\ Len(reqs[i].resp.locals.students)
                          = Min(b.limit, Max(0, total - b.skip))
                   /\ (total = 25 /\ b.limit = 10) =>
                          /\ p.totalPages = 3
                          /\ b.page = 1 => Len(reqs[i].resp.locals.students) = 10
                          /\ b.page = 4 => Len(reqs[i].resp.locals.students) = 0

\* C10 witness: page 4 of 25 matches with limit 10 was rendered empty
C10_Witness ==
    \E i \in Lists :
        /\ Done(i)
        /\ reqs[i].resp.locals.pagination
               = [page |-> 4, limit |-> 10, total |-> 25, totalPages |-> 3]
        /\ reqs[i].resp.locals.students = <<>>
        /\ reqs[i].resp.status = 200

AllowList ==
    {<<"n","a","m","e">>, <<"r","o","l","l","N","u","m","b","e","r">>,
     <<"e","m","a","i","l">>, <<"d","e","p","a","r","t","m","e","n","t">>,
     <<"g","p","a">>, <<"c","r","e","a","t","e","d","A","t">>}

\* the sortBy the handler reads is outside the allow-list
OutsideAllowList(query) ==
    query.sortBy = Undefined \/ trim(query.sortBy) \notin AllowList

\* the rendered page is in the order of createdAt, in the direction dir
InCreatedAtOrder(page, dir) ==
    \A j \in 1..(Len(page) - 1) :
        IF dir = 1 THEN page[j].createdAt < page[j + 1].createdAt
        ELSE page[j].createdAt > page[j + 1].createdAt

\* C11 as stated: for every sortBy outside the allow-list, whatever the
\* order parameter is, the list request does not error and its sort
\* specification is createdAt descending
C11_FallsBackToCreatedAtDescending ==
    \A i \in Lists :
        OutsideAllowList(reqs[i].body.query) =>
            /\ reqs[i].body.sort = [key |-> "createdAt", dir |-> -1]
            /\ Done(i) => reqs[i].resp.status = 200

\* C11 as amended: for every sortBy outside the allow-list the list request
\* does not error and its sort key is createdAt; the direction is ascending
\* when the trimmed order parameter is 'asc' and descending for every other
\* order, and the rendered page is in that order
C11_FallsBackToCreatedAt ==
    \A i \in Lists :
        LET q == reqs[i].body.query
            dir == IF q.order # Undefined /\ trim(q.order) = <<"a","s","c">>
                   THEN 1 ELSE -1
        IN  OutsideAllowList(q) =>
                /\ reqs[i].body.sort = [key |-> "createdAt", dir |-> dir]
                /\ Done(i) =>
                       /\ reqs[i].resp.status = 200
                       /\ InCreatedAtOrder(reqs[i].resp.locals.students, dir)

\* C11 witness: a list sorted by 'age' with order 'asc' rendered several
\* students, oldest first
C11_Witness ==
    \E i \in Lists :
        /\ Done(i)
        /\ reqs[i].body.query.sortBy = <<"a","g","e">>
        /\ reqs[i].body.query.order = <<"a","s","c">>
        /\ Len(reqs[i].resp.locals.students) >= 3
        /\ reqs[i].resp.locals.students[1].createdAt = 1
        /\ reqs[i].resp.status = 200

(***************************************************************************)
(* Properties of the delete handler, among creates, updates and deletes    *)
(***************************************************************************)
Deletes == {i \in DOMAIN reqs : reqs[i].kind = "DELETE /students/:id"}

\* every finished delete of a well-formed id got the redirect
\* /students?msg=deleted
DeleteAnswers ==
    \A i \in Deletes :
        (Done(i) /\ isMongoId(reqs[i].id)) =>
            reqs[i].resp = [status |-> 302, view |-> "",
                            location |-> [path |-> "/students", id |-> 0,
                                          msg |-> "deleted"],
                            errors |-> <<>>, locals |-> NoLocals]

\* the store step of a delete: no record with the id is left, every other
\* record is as it was, and without such a record the store is unchanged
DeleteStep ==
    \A i \in Deletes :
        (reqs[i].pc = "store" /\ reqs'[i].pc = "done" /\ isMongoId(reqs[i].id)) =>
            /\ \A o \in students' : o._id # reqs[i].id.n
            /\ \A o \in students : o._id # reqs[i].id.n => o \in students'
            /\ students' \subseteq students
            /\ (\A o \in students : o._id # reqs[i].id.n) => students' = students
            /\ reqs'[i].resp.status = 302
            /\ reqs'[i].resp.location.msg = "deleted"

\* C14: DELETE /students/:id answers with the same redirect
\* /students?msg=deleted whether or not a record with the id exists and
\* surfaces no error; afterwards no record with the id exists, every other
\* stored student is unchanged, and a repeated delete leaves the store and
\* the response the same
C14_DeleteIdempotent == []DeleteAnswers /\ [][DeleteStep]_vars

\* C14 witness: the id of a created student was deleted twice, once with
\* the record stored and once without, with the same response
C14_Witness ==
    \E i, j \in Deletes :
        /\ i < j /\ Done(i) /\ Done(j)
        /\ reqs[i].id = ObjectId(1) /\ reqs[j].id = ObjectId(1)
        /\ reqs[i].resp = reqs[j].resp
        /\ \E k \in Creates : Succeeded(k)
        /\ students = {}

(***************************************************************************)
(* One student or dashboard request, from a store of MaxSeed students or   *)
(* fewer, under each session: none, the administrator's, a user's.         *)
(***************************************************************************)
MaxSeed == 5

Sessions == {Anonymous} \cup {SessionOf(u) : u \in SeedUsers}

InitSession ==
    /\ \E n \in 0..MaxSeed : students = SeedMany(n) /\ nextId = n + 1
    /\ users = SeedUsers
    /\ nextUserId = 3
    /\ session \in Sessions
    /\ reqs = <<>>

ArriveSession ==
    /\ reqs = <<>>
    /\ \/ \E msg \in {"", "logout_success"} : GetDashboard(msg)
       \/ GetStudents(NoQuery)
       \/ \E body \in {BaseBody, [BaseBody EXCEPT !.gpa = <<"5">>]} : PostStudents(body)
       \/ PutStudent(ObjectId(1), BaseBody)
       \/ \E kind \in {"GET /students/:id", "GET /students/:id/edit",
                        "DELETE /students/:id"} : GetById(kind, ObjectId(1))

NextSession ==
    \/ ArriveSession
    \/ \E i \in DOMAIN reqs : DashCount(i)
    \/ \E i \in DOMAIN reqs : DashByDept(i)
    \/ \E i \in DOMAIN reqs : DashAvg(i)
    \/ \E i \in DOMAIN reqs : ListCount(i)
    \/ \E i \in DOMAIN reqs : ListFind(i)
    \/ \E i \in DOMAIN reqs : SaveStudent(i)
    \/ \E i \in DOMAIN reqs : UpdateStudent(i)
    \/ \E i \in DOMAIN reqs : ShowStudent(i)
    \/ \E i \in DOMAIN reqs : EditStudent(i)
    \/ \E i \in DOMAIN reqs : DeleteStudent(i)
    \/ SessionExpires

SpecSession == InitSession /\ [][NextSession]_vars

\* the student that BaseBody describes, with the id k
BaseStudent(k, createdAt) ==
    [_id |-> k, name |-> <<"A","l">>, rollNumber |-> <<"r","1">>,
     email |-> <<"a","@","x",".","i","o">>, department |-> <<"c","s">>,
     gpa |-> 3500, createdAt |-> createdAt]

\* the average gpa, to two decimals, of the first n seeded students
SeedAverage == <<1000, 1500, 2000, 2500, 2000, 1830, 1860>>

\* the response and the resulting store that the request gets from the
\* store coll of seeded students, whoever sends it
Outcome(req, coll) ==
    LET n == Cardinality(coll)
        first == {o \in coll : o._id = 1}
        same(resp) == [resp |-> resp, store |-> coll]
        notFound == same(Render(404, "error", <<"Student not found">>))
    IN  CASE req.kind = "POST /students" ->
               IF req.body.gpa = <<"5">>
               THEN same(Render(422, "addStudent", <<"GPA must be between 0.0 and 4.0">>))
               ELSE [resp |-> Redirect("/students", 0, "created"),
                     store |-> coll \cup {BaseStudent(n + 1, n + 1)}]
          [] req.kind = "PUT /students/:id" ->
               IF first = {} THEN notFound
               ELSE [resp |-> Redirect("/students/:id", 1, "updated"),
                     store |-> (coll \ first) \cup {BaseStudent(1, 1)}]
          [] req.kind = "DELETE /students/:id" ->
               [resp |-> Redirect("/students", 0, "deleted"), store |-> coll \ first]
          [] req.kind = "GET /students/:id" ->
               IF first = {} THEN notFound
               ELSE same(RenderWith("studentDetails",
                                    [student |-> CHOOSE o \in first : TRUE]))
          [] req.kind = "GET /students/:id/edit" ->
               IF first = {} THEN notFound
               ELSE same(RenderWith("editStudent",
                                    [values |-> CHOOSE o \in first : TRUE]))
          [] req.kind = "GET /students" ->
               same(RenderWith("students",
                   [students |-> [k \in 1..n |->
                                     CHOOSE o \in coll : o.createdAt = n + 1 - k],
                    pagination |-> [page |-> 1, limit |-> 10, total |-> n,
                                    totalPages |-> 1]]))
          [] req.kind = "GET /" ->
               same(RenderWith("index",
                   [total |-> n,
                    topDepartments |->
                        IF n = 0 THEN <<>>
                        ELSE IF n < 5 THEN <<[name |-> <<"c","s">>, count |-> n]>>
                        ELSE <<[name |-> <<"c","s">>, count |-> n - 1],
                               [name |-> <<"e","e">>, count |-> 1]>>,
                    avgGpa |-> IF n = 0 THEN [finite |-> FALSE, n |-> 0]
                               ELSE [finite |-> TRUE, n |-> SeedAverage[n]],
                    flashMsg |-> IF req.body.msg = "logout_success"
                                 THEN "You have been successfully logged out."
                                 ELSE ""]))

\* the request i ends in this step
Finishes(i) ==
    /\ reqs'[i].pc = "done"
    /\ i \in DOMAIN reqs => reqs[i].pc # "done"

\* a step of a student or dashboard handler leaves the session as it was,
\* and the step that ends the request gives the response and the store
\* that the request and the store determine; a step that ends no request
\* leaves the store as it was
SessionPlaysNoPart ==
    /\ reqs' # reqs => session' = session
    /\ \A i \in DOMAIN reqs' :
           Finishes(i) =>
               /\ reqs'[i].resp = Outcome(reqs'[i], students).resp
               /\ students' = Outcome(reqs'[i], students).store
    /\ (\A i \in DOMAIN reqs' : ~Finishes(i)) => students' = students

====
